---- MODULE Spec2Model ----
(***************************************************************************)
(* Model of compare_video_result: load_config, verify_videos and           *)
(* process_and_composite_videos (concat_videos.py) and main (cli.py).      *)
(*                                                                         *)
(* Decoded YAML values are tagged records [t |-> type, v |-> value]; the   *)
(* tag t is the Python type yaml.safe_load produces.  Frame rates are in   *)
(* units of 0.0001 fps and durations in units of 0.01 s, so that the two   *)
(* tolerances of verify_videos are whole numbers.                          *)
(***************************************************************************)
EXTENDS Integers, Sequences, FiniteSets, TLC

VARIABLES
  raw,            \* the configuration file: [file, obj]
  fs,             \* the video files: path -> [exists, opens, size, fps, duration]
  video_configs,  \* the entry list handed to verify_videos / the compositor
  pc,             \* position in the running function
  exc,            \* the exception being raised, NoExc when none
  ret,            \* the value the last function returned
  config,         \* the dictionary load_config returned
  stdout,         \* the warnings printed by load_config
  dirs,           \* directories created by load_config
  handles,        \* every VideoFileClip opened so far: [path, entry, by, open]
  trace,          \* calls made to pathlib and moviepy, in order
  clips,          \* verify_videos: the list 'clips' (indices into handles)
  vi,             \* verify_videos: the entry the loop is at (1-based)
  base,           \* verify_videos: base_size, base_fps, base_duration
  output_path,    \* compositor: the argument output_path
  dims,           \* compositor: original_width, original_height
  ci,             \* compositor: the entry the loop is at (1-based)
  video_clip,     \* compositor: the loop's variable video_clip (index into handles)
  loaded_clips,   \* compositor: the list 'loaded_clips'
  combined,       \* compositor: the list 'combined_vertical_clips'
  hstacks,        \* compositor: the rows handed to clips_array at line 269
  final,          \* compositor: final_composite
  render,         \* the arguments of write_videofile, once called
  outfile,        \* what this run left at output_path
  exitcode,       \* main: the exit status, -1 while running
  stderr          \* main: the message prefix written to stderr

verifyVars == <<clips, vi, base>>
composeVars == <<dims, ci, video_clip, loaded_clips, combined, hstacks, final, render, outfile>>
mainVars == <<exitcode, stderr>>

vars == <<raw, fs, video_configs, pc, exc, ret, config, stdout, dirs,
          handles, trace, clips, vi, base, output_path, dims, ci, video_clip,
          loaded_clips, combined, hstacks, final, render, outfile, exitcode, stderr>>

(***************************************************************************)
(* Bounds of the model.                                                    *)
(***************************************************************************)
\* longest 'videos' list of a decoded configuration
MaxRawVideos == 5
\* longest entry list handed directly to verify_videos
MaxEntries == 3

(***************************************************************************)
(* Decoded values.                                                         *)
(***************************************************************************)
Absent == [t |-> "absent"]
Null == [t |-> "null"]
StrV(s) == [t |-> "str", v |-> s]
IntV(n) == [t |-> "int", v |-> n]
BoolV(b) == [t |-> "bool", v |-> b]
ListV(s) == [t |-> "list", v |-> s]
DictV(r) == [t |-> "dict", v |-> r]

\* isinstance(x, str), isinstance(x, list), isinstance(x, dict)
IsStr(x) == x.t = "str"
IsList(x) == x.t = "list"
IsDict(x) == x.t = "dict"
\* isinstance(x, (int, float)): bool is a subclass of int
IsNumber(x) == x.t \in {"int", "float", "bool"}
NumVal(x) == IF x.t = "bool" THEN (IF x.v THEN 1 ELSE 0) ELSE x.v
\* isinstance(x, (str, tuple)): safe_load decodes a YAML sequence to a list
IsStrOrTuple(x) == x.t \in {"str", "tuple"}

\* pathlib.Path(s) on the path strings of the model: a leading "./" and a
\* trailing "/" are dropped, every other string is kept
PathOf(s) == IF s = "./a" THEN "a" ELSE IF s = "b/" THEN "b" ELSE s
\* Path.parent of the output paths of the model
ParentOf(p) == IF p = "out/o.mp4" THEN "out" ELSE "."

NoExc == [type |-> "none", msg |-> "", at |-> -1]
Exc(type, msg, at) == [type |-> type, msg |-> msg, at |-> at]
NoConfig == [t |-> "none"]
None == [t |-> "none"]
NoBase == [size |-> <<0, 0>>, fps |-> 0, duration |-> 0]
NoClip == [kind |-> "none"]
NoRender == [path |-> "", codec |-> "", fps |-> 0, threads |-> 0, preset |-> ""]

Warn(w, i) == [w |-> w, i |-> i]

(***************************************************************************)
(* load_config                                                             *)
(***************************************************************************)
\* the default-carrying config.get(key, default)
Get(v, default) == IF v = Absent THEN default ELSE v

DefaultHeight == IntV(100)
DefaultAreaColor == StrV("white")
DefaultFontSize == IntV(30)
DefaultFontColor == StrV("black")

InvalidHeight(v) == ~IsNumber(v) \/ NumVal(v) < 0
InvalidColor(v) == ~IsStrOrTuple(v)
InvalidFontSize(v) == ~IsNumber(v) \/ NumVal(v) <= 0

\* the count check with <= 5 for < 5
CountOkUpTo5(n) == 1 <= n /\ n <= 5
\* 1 <= len(config['videos']) < 5
CountOk(n) == 1 <= n /\ n < 5

\* the loop over config['videos']: entries are 1-based here, i-1 is the
\* index the code reports
RECURSIVE ProcessEntries(_, _, _, _)
ProcessEntries(vs, i, out, warns) ==
  IF i > Len(vs) THEN [exc |-> NoExc, videos |-> out, warns |-> warns]
  ELSE LET e == vs[i] IN
    IF ~IsDict(e)
    THEN [exc |-> Exc("ValueError", "entry_not_dict", i - 1),
          videos |-> out, warns |-> warns]
    ELSE IF e.v.path = Absent \/ ~IsStr(e.v.path)
    THEN [exc |-> Exc("ValueError", "entry_path", i - 1),
          videos |-> out, warns |-> warns]
    ELSE LET d == e.v.description
             w == IF d = Absent
                  THEN Append(warns, Warn("description_missing", i - 1))
                  ELSE IF ~IsStr(d)
                  THEN Append(warns, Warn("description_not_str", i - 1))
                  ELSE warns
             desc == IF d = Absent \/ ~IsStr(d) THEN "" ELSE d.v
         IN ProcessEntries(vs, i + 1,
              Append(out, [path |-> PathOf(e.v.path.v), description |-> desc]), w)

\* the four optional keys, in the order the code handles them
OptionalWarns(c) ==
  LET h == Get(c.text_area_height, DefaultHeight)
      ac == Get(c.text_area_color, DefaultAreaColor)
      fz == Get(c.font_size, DefaultFontSize)
      fc == Get(c.font_color, DefaultFontColor)
  IN (IF InvalidHeight(h) THEN <<Warn("text_area_height", -1)>> ELSE <<>>)
     \o (IF InvalidColor(ac) THEN <<Warn("text_area_color", -1)>> ELSE <<>>)
     \o (IF InvalidFontSize(fz) THEN <<Warn("font_size", -1)>> ELSE <<>>)
     \o (IF InvalidColor(fc) THEN <<Warn("font_color", -1)>> ELSE <<>>)

TextAreaHeight(c) ==
  LET h == Get(c.text_area_height, DefaultHeight)
  IN IF InvalidHeight(h) THEN DefaultHeight ELSE h
TextAreaColor(c) ==
  LET ac == Get(c.text_area_color, DefaultAreaColor)
  IN IF InvalidColor(ac) THEN DefaultAreaColor ELSE ac
FontSize(c) ==
  LET fz == Get(c.font_size, DefaultFontSize)
  IN IF InvalidFontSize(fz) THEN DefaultFontSize ELSE fz
FontColor(c) ==
  LET fc == Get(c.font_color, DefaultFontColor)
  IN IF InvalidColor(fc) THEN DefaultFontColor ELSE fc

Raised(e, out) == [exc |-> e, config |-> NoConfig, stdout |-> out, dirs |-> {}]

\* load_config(yaml_path) on the file r = [file, obj]
load_config(r) ==
  IF r.file = "missing" THEN Raised(Exc("FileNotFoundError", "config", -1), <<>>)
  ELSE IF r.file = "malformed" THEN Raised(Exc("YAMLError", "parse", -1), <<>>)
  ELSE IF ~IsDict(r.obj) THEN Raised(Exc("ValueError", "not_dict", -1), <<>>)
  ELSE LET c == r.obj.v IN
    IF c.videos = Absent \/ ~IsList(c.videos)
    THEN Raised(Exc("ValueError", "videos", -1), <<>>)
    ELSE IF ~CountOk(Len(c.videos.v))
    THEN Raised(Exc("ValueError", "count", -1), <<>>)
    ELSE LET p == ProcessEntries(c.videos.v, 1, <<>>, <<>>) IN
      IF p.exc # NoExc THEN Raised(p.exc, p.warns)
      ELSE IF c.output_video = Absent \/ ~IsStr(c.output_video)
      THEN Raised(Exc("ValueError", "output_video", -1), p.warns)
      ELSE [exc |-> NoExc,
            config |-> [videos |-> p.videos,
                        output_video |-> PathOf(c.output_video.v),
                        text_area_height |-> TextAreaHeight(c),
                        text_area_color |-> TextAreaColor(c),
                        font_size |-> FontSize(c),
                        font_color |-> FontColor(c)],
            stdout |-> p.warns \o OptionalWarns(c),
            dirs |-> {ParentOf(PathOf(c.output_video.v))}]

(***************************************************************************)
(* Inputs of load_config.                                                  *)
(***************************************************************************)
RECURSIVE SeqsUpTo(_, _)
SeqsUpTo(S, n) ==
  IF n = 0 THEN {<<>>}
  ELSE LET shorter == SeqsUpTo(S, n - 1)
       IN shorter \cup {Append(s, x) : s \in {t \in shorter : Len(t) = n - 1}, x \in S}

EntryA == DictV([path |-> StrV("a"), description |-> StrV("A")])
EntryDotA == DictV([path |-> StrV("./a"), description |-> Absent])
EntryB == DictV([path |-> StrV("b/"), description |-> IntV(7)])
EntryNoPath == DictV([path |-> Absent, description |-> StrV("A")])
EntryIntPath == DictV([path |-> IntV(1), description |-> Absent])
EntryNotDict == StrV("a")

BasicEntries == {EntryA, EntryB, EntryIntPath}
AllEntries == {EntryA, EntryDotA, EntryB, EntryNoPath, EntryIntPath, EntryNotDict}

RawVideos ==
  {Absent, StrV("a")}
    \cup {ListV(s) : s \in SeqsUpTo(BasicEntries, MaxRawVideos)}
    \cup {ListV(s) : s \in SeqsUpTo(AllEntries, 2)}

RawOutputs == {Absent, IntV(1), StrV("out/o.mp4")}

Triple == ListV(<<255, 0, 0>>)
RawHeights == {Absent, IntV(50), IntV(0), IntV(-1), StrV("tall"), BoolV(TRUE), Null}
RawColors == {Absent, StrV("red"), Triple, IntV(3), Null}
RawFontSizes == {Absent, IntV(12), IntV(0), IntV(-4), StrV("big"), Null}

\* every combination of (absent, valid, invalid) over the four optional
\* keys, and every further value of one key with the other keys absent
RawOptionals ==
  {[text_area_height |-> h, text_area_color |-> ac, font_size |-> fz, font_color |-> fc] :
      h \in {Absent, IntV(50), IntV(-1)}, ac \in {Absent, StrV("red"), IntV(3)},
      fz \in {Absent, IntV(12), IntV(0)}, fc \in {Absent, StrV("red"), Triple}}
  \cup {[text_area_height |-> h, text_area_color |-> Absent, font_size |-> Absent,
         font_color |-> Absent] : h \in RawHeights}
  \cup {[text_area_height |-> Absent, text_area_color |-> ac, font_size |-> Absent,
         font_color |-> Absent] : ac \in RawColors}
  \cup {[text_area_height |-> Absent, text_area_color |-> Absent, font_size |-> fz,
         font_color |-> Absent] : fz \in RawFontSizes}
  \cup {[text_area_height |-> Absent, text_area_color |-> Absent, font_size |-> Absent,
         font_color |-> fc] : fc \in RawColors}

RawDict(vs, o, opt) ==
  DictV([videos |-> vs, output_video |-> o,
        text_area_height |-> opt.text_area_height,
        text_area_color |-> opt.text_area_color,
        font_size |-> opt.font_size, font_color |-> opt.font_color])

RawFiles ==
  {[file |-> "missing", obj |-> Null], [file |-> "malformed", obj |-> Null],
   [file |-> "ok", obj |-> Null], [file |-> "ok", obj |-> ListV(<<>>)]}
  \cup {[file |-> "ok", obj |-> RawDict(vs, o, opt)] :
          vs \in RawVideos, o \in RawOutputs, opt \in RawOptionals}

(***************************************************************************)
(* Video files and media handles.                                          *)
(***************************************************************************)
Paths == {"a", "b", "c"}

Missing == [exists |-> FALSE, opens |-> FALSE, size |-> <<0, 0>>, fps |-> 0, duration |-> 0]
Corrupt == [exists |-> TRUE, opens |-> FALSE, size |-> <<0, 0>>, fps |-> 0, duration |-> 0]
Clip(size, fps, duration) ==
  [exists |-> TRUE, opens |-> TRUE, size |-> size, fps |-> fps, duration |-> duration]

\* abs(clip.fps - base_fps) > 0.001, in units of 0.0001 fps
FpsTol == 10
\* abs(clip.duration - base_duration) > 0.1, in units of 0.01 s
DurTol == 10

\* a 640x360 clip at 30 fps lasting 2 s, and clips that differ from it by
\* one pixel, by less than, exactly and one unit more than a tolerance
RefClip == Clip(<<640, 360>>, 300000, 200)
OnePixel == Clip(<<641, 360>>, 300000, 200)
Near == Clip(<<640, 360>>, 300000 + 5, 200 + 5)
AtTol == Clip(<<640, 360>>, 300000 + FpsTol, 200 - DurTol)
FpsOver == Clip(<<640, 360>>, 300000 + FpsTol + 1, 200)
DurOver == Clip(<<640, 360>>, 300000, 200 + DurTol + 1)

FileKinds == {Missing, Corrupt, RefClip, OnePixel, Near, AtTol, FpsOver, DurOver}

NoFiles == [p \in Paths |-> Missing]

Entry(p) == [path |-> p, description |-> p]

Abs(x) == IF x < 0 THEN -x ELSE x

\* VideoFileClip(str(path)) by function 'by' for entry i (0-based)
Handle(p, i, by) == [path |-> p, entry |-> i, by |-> by, open |-> TRUE]
Event(op, i) == [op |-> op, entry |-> i]

\* clip.reader is not None: the reader is dropped by close()
HasReader(h) == h.open

\* for clip in cs: if clip and clip.reader is not None: clip.close()
CloseAll(hs, cs) ==
  [k \in DOMAIN hs |->
     IF (\E j \in DOMAIN cs : cs[j] = k) /\ HasReader(hs[k])
     THEN [hs[k] EXCEPT !.open = FALSE] ELSE hs[k]]

RECURSIVE CloseEvents(_, _, _)
CloseEvents(hs, cs, j) ==
  IF j > Len(cs) THEN <<>>
  ELSE (IF HasReader(hs[cs[j]]) THEN <<Event("close", hs[cs[j]].entry)>> ELSE <<>>)
       \o CloseEvents(hs, cs, j + 1)

OpenHandles(by) == {k \in DOMAIN handles : handles[k].open /\ handles[k].by = by}

(***************************************************************************)
(* verify_videos                                                           *)
(***************************************************************************)
SizeMismatch(clip, b) == clip.size # b.size
DurationMismatch(clip, b) == Abs(clip.duration - b.duration) > DurTol

\* lines 131-133 with a wrong attribute read for the duration
BaselineOfFps(f) == [size |-> f.size, fps |-> f.fps, duration |-> f.fps]
\* base_size, base_fps, base_duration of the opened base clip
BaselineOf(f) == [size |-> f.size, fps |-> f.fps, duration |-> f.duration]

\* the fps comparison with >= for >
FpsMismatchGe(clip, b) == clip.fps # b.fps /\ Abs(clip.fps - b.fps) >= FpsTol
FpsMismatch(clip, b) == clip.fps # b.fps /\ Abs(clip.fps - b.fps) > FpsTol
\* the comparisons with fps looked at before size
ComparisonFpsFirst(clip, b) ==
  IF FpsMismatch(clip, b) THEN "fps"
  ELSE IF SizeMismatch(clip, b) THEN "size"
  ELSE IF DurationMismatch(clip, b) THEN "duration"
  ELSE "match"
\* the first comparison of a clip with the baseline that fails
Comparison(clip, b) ==
  IF SizeMismatch(clip, b) THEN "size"
  ELSE IF FpsMismatch(clip, b) THEN "fps"
  ELSE IF DurationMismatch(clip, b) THEN "duration"
  ELSE "match"

\* lines 116-136: the empty check, then the base video
VerifyBase ==
  /\ pc = "verify"
  /\ IF video_configs = <<>>
     THEN /\ exc' = Exc("ValueError", "no_configs", -1)
          /\ pc' = "verify_done"
          /\ UNCHANGED <<handles, trace, clips, vi, base>>
     ELSE LET p == video_configs[1].path
              f == fs[p]
          IN IF ~f.exists
             THEN /\ exc' = Exc("FileNotFoundError", "video", 0)
                  /\ pc' = "verify_except"
                  /\ trace' = Append(trace, Event("exists", 0))
                  /\ UNCHANGED <<handles, clips, vi, base>>
             ELSE IF ~f.opens
             THEN /\ exc' = Exc("OSError", "open", 0)
                  /\ pc' = "verify_except"
                  /\ trace' = trace \o <<Event("exists", 0), Event("open_failed", 0)>>
                  /\ UNCHANGED <<handles, clips, vi, base>>
             ELSE /\ handles' = Append(handles, Handle(p, 0, "verify"))
                  /\ base' = BaselineOf(f)
                  /\ clips' = Append(clips, Len(handles) + 1)
                  /\ trace' = trace \o <<Event("exists", 0), Event("open", 0)>>
                  /\ vi' = 2
                  /\ pc' = "verify_loop"
                  /\ UNCHANGED exc
  /\ UNCHANGED <<raw, fs, video_configs, ret, config, stdout, dirs, output_path>>
  /\ UNCHANGED <<composeVars, mainVars>>

\* lines 139-163: one iteration of the loop over video_configs[1:]
VerifyNext ==
  /\ pc = "verify_loop"
  /\ vi <= Len(video_configs)
  /\ LET p == video_configs[vi].path
         f == fs[p]
         i == vi - 1
     IN IF ~f.exists
        THEN /\ exc' = Exc("FileNotFoundError", "video", i)
             /\ pc' = "verify_except"
             /\ trace' = Append(trace, Event("exists", i))
             /\ UNCHANGED <<handles, clips, vi>>
        ELSE IF ~f.opens
        THEN /\ exc' = Exc("OSError", "open", i)
             /\ pc' = "verify_except"
             /\ trace' = trace \o <<Event("exists", i), Event("open_failed", i)>>
             /\ UNCHANGED <<handles, clips, vi>>
        ELSE /\ handles' = Append(handles, Handle(p, i, "verify"))
             /\ trace' = trace \o <<Event("exists", i), Event("open", i)>>
             /\ IF Comparison(f, base) # "match"
                THEN /\ exc' = Exc("ValueError", Comparison(f, base), i)
                     /\ pc' = "verify_except"
                     /\ UNCHANGED <<clips, vi>>
                ELSE /\ clips' = Append(clips, Len(handles) + 1)
                     /\ vi' = vi + 1
                     /\ UNCHANGED <<exc, pc>>
  /\ UNCHANGED <<raw, fs, video_configs, ret, config, stdout, dirs, base, output_path>>
  /\ UNCHANGED <<composeVars, mainVars>>

\* line 165: the loop is exhausted
VerifyMatched ==
  /\ pc = "verify_loop"
  /\ vi > Len(video_configs)
  /\ pc' = "verify_finally"
  /\ UNCHANGED <<raw, fs, video_configs, exc, ret, config, stdout, dirs,
                 handles, trace, clips, vi, base, output_path>>
  /\ UNCHANGED <<composeVars, mainVars>>

\* lines 167-172: close the clips of the list, then re-raise
VerifyExcept ==
  /\ pc = "verify_except"
  /\ handles' = CloseAll(handles, clips)
  /\ trace' = trace \o CloseEvents(handles, clips, 1)
  /\ pc' = "verify_finally"
  /\ UNCHANGED <<raw, fs, video_configs, exc, ret, config, stdout, dirs, clips, vi, base>>
  /\ UNCHANGED <<output_path, composeVars, mainVars>>

\* lines 173-177: close the clips of the list; the function then returns
\* None or lets the exception go on
VerifyFinally ==
  /\ pc = "verify_finally"
  /\ handles' = CloseAll(handles, clips)
  /\ trace' = trace \o CloseEvents(handles, clips, 1)
  /\ ret' = None
  /\ pc' = "verify_done"
  /\ UNCHANGED <<raw, fs, video_configs, exc, config, stdout, dirs, clips, vi, base>>
  /\ UNCHANGED <<output_path, composeVars, mainVars>>

(***************************************************************************)
(* process_and_composite_videos                                            *)
(***************************************************************************)
\* the clip a handle reads
ClipOf(k) == fs[handles[k].path]

\* ColorClip(size=(original_width, text_area_height), color=(255, 255, 255),
\*           ismask=False, duration=video_clip.duration)
ColorClipOf(d, cfg, f) ==
  [kind |-> "color", size |-> <<d[1], NumVal(cfg.text_area_height)>>,
   color |-> <<255, 255, 255>>, duration |-> f.duration]

\* TextClip(description, fontsize=font_size, color=font_color,
\*          method='caption', size=(original_width * 0.9, None))
\*   .set_position('center').set_duration(video_clip.duration)
\* the width is kept in tenths of a pixel
TextClipOf(d, cfg, e, f) ==
  [kind |-> "text", content |-> e.description, fontsize |-> cfg.font_size,
   color |-> cfg.font_color, method |-> "caption", width10 |-> d[1] * 9,
   position |-> "center", duration |-> f.duration]

\* clips_array([[video_clip], [CompositeVideoClip([color_clip, text_clip])]])
ColumnOf(k, i, color, text) ==
  [kind |-> "column", entry |-> i, video |-> k,
   band |-> [kind |-> "composite", bg |-> color, overlay |-> text]]

\* lines 262-269 with the single-column case left out
ArrangeAlwaysRow(cols) ==
  [final |-> [kind |-> "row", columns |-> cols], rows |-> <<cols>>]
\* lines 262-269: the final composite, and the rows handed to clips_array
Arrange(cols) ==
  IF Len(cols) = 1
  THEN [final |-> cols[1], rows |-> <<>>]
  ELSE [final |-> [kind |-> "row", columns |-> cols], rows |-> <<cols>>]

Loaded(kind, i) == [kind |-> kind, entry |-> i]

\* lines 192-207: the dimension probe on the first entry
ComposeProbe ==
  /\ pc = "compose"
  /\ IF video_configs = <<>>
     THEN /\ exc' = Exc("IndexError", "video_configs[0]", -1)
          /\ pc' = "compose_done"
          /\ UNCHANGED <<handles, trace, dims, ci>>
     ELSE LET p == video_configs[1].path
              f == fs[p]
          IN IF ~f.exists \/ ~f.opens
             THEN /\ exc' = Exc("OSError", "open", 0)
                  /\ pc' = "compose_done"
                  /\ trace' = Append(trace, Event("open_failed", 0))
                  /\ UNCHANGED <<handles, dims, ci>>
             ELSE /\ handles' = Append(handles, [Handle(p, 0, "probe") EXCEPT !.open = FALSE])
                  /\ trace' = trace \o <<Event("open", 0), Event("close", 0)>>
                  /\ dims' = f.size
                  /\ ci' = 1
                  /\ pc' = "compose_loop"
                  /\ UNCHANGED exc
  /\ UNCHANGED <<raw, fs, video_configs, ret, config, stdout, dirs, output_path>>
  /\ UNCHANGED <<video_clip, loaded_clips, combined, hstacks, final, render, outfile>>
  /\ UNCHANGED <<verifyVars, mainVars>>

\* lines 208-256: one iteration of the loop; TextClip may fail
ComposeNext ==
  /\ pc = "compose_loop"
  /\ ci <= Len(video_configs)
  /\ LET e == video_configs[ci]
         f == fs[e.path]
         i == ci - 1
         k == Len(handles) + 1
         color == ColorClipOf(dims, config, f)
         text == TextClipOf(dims, config, e, f)
     IN IF ~f.exists \/ ~f.opens
        THEN /\ exc' = Exc("OSError", "open", i)
             /\ pc' = "compose_done"
             /\ trace' = Append(trace, Event("open_failed", i))
             /\ UNCHANGED <<handles, ci, video_clip, loaded_clips, combined>>
        ELSE /\ handles' = Append(handles, Handle(e.path, i, "compose"))
             /\ video_clip' = k
             /\ \E textOk \in BOOLEAN :
                  IF textOk
                  THEN /\ loaded_clips' = loaded_clips \o
                            <<Loaded("video", i), Loaded("color", i),
                              Loaded("text", i), Loaded("composite", i)>>
                       /\ combined' = Append(combined, ColumnOf(k, i, color, text))
                       /\ trace' = trace \o <<Event("open", i), Event("stack_column", i)>>
                       /\ ci' = ci + 1
                       /\ UNCHANGED <<exc, pc>>
                  ELSE /\ loaded_clips' = loaded_clips \o
                            <<Loaded("video", i), Loaded("color", i)>>
                       /\ exc' = Exc("OSError", "text", i)
                       /\ pc' = "compose_done"
                       /\ trace' = Append(trace, Event("open", i))
                       /\ UNCHANGED <<ci, combined>>
  /\ UNCHANGED <<raw, fs, video_configs, ret, config, stdout, dirs, output_path>>
  /\ UNCHANGED <<dims, hstacks, final, render, outfile>>
  /\ UNCHANGED <<verifyVars, mainVars>>

\* lines 259-269: the zero check and the horizontal arrangement
ComposeArrange ==
  /\ pc = "compose_loop"
  /\ ci > Len(video_configs)
  /\ IF combined = <<>>
     THEN /\ exc' = Exc("ValueError", "no_columns", -1)
          /\ pc' = "compose_done"
          /\ UNCHANGED <<final, hstacks, trace>>
     ELSE /\ final' = Arrange(combined).final
          /\ hstacks' = hstacks \o Arrange(combined).rows
          /\ trace' = trace \o [j \in DOMAIN Arrange(combined).rows |-> Event("stack_row", -1)]
          /\ pc' = "compose_write"
          /\ UNCHANGED exc
  /\ UNCHANGED <<raw, fs, video_configs, ret, config, stdout, dirs, output_path, handles>>
  /\ UNCHANGED <<dims, ci, video_clip, loaded_clips, combined, render, outfile>>
  /\ UNCHANGED <<verifyVars, mainVars>>

\* lines 272-283: write_videofile; the encoder finishes, fails before it
\* has created the file, or fails part-way through writing it
ComposeWrite ==
  /\ pc = "compose_write"
  /\ render' = [path |-> output_path, codec |-> "libx264",
                fps |-> ClipOf(video_clip).fps, threads |-> 4, preset |-> "medium"]
  /\ trace' = Append(trace, Event("write_videofile", -1))
  /\ \E outcome \in {"complete", "absent", "partial"} :
       /\ outfile' = outcome
       /\ exc' = IF outcome = "complete" THEN NoExc ELSE Exc("OSError", "render", -1)
  /\ ret' = None
  /\ pc' = "compose_done"
  /\ UNCHANGED <<raw, fs, video_configs, config, stdout, dirs, output_path, handles>>
  /\ UNCHANGED <<dims, ci, video_clip, loaded_clips, combined, hstacks, final>>
  /\ UNCHANGED <<verifyVars, mainVars>>

(***************************************************************************)
(* main (cli.py)                                                           *)
(***************************************************************************)
\* lines 30-34: load_config returned, verify_videos is called
MainVerify ==
  /\ pc = "load_config_done"
  /\ exc = NoExc
  /\ video_configs' = config.videos
  /\ output_path' = config.output_video
  /\ pc' = "verify"
  /\ UNCHANGED <<raw, fs, exc, ret, config, stdout, dirs, handles, trace>>
  /\ UNCHANGED <<verifyVars, composeVars, mainVars>>

\* line 37: verify_videos returned, the compositor is called
MainCompose ==
  /\ pc = "verify_done"
  /\ exc = NoExc
  /\ pc' = "compose"
  /\ UNCHANGED <<raw, fs, video_configs, exc, ret, config, stdout, dirs, handles, trace>>
  /\ UNCHANGED <<output_path, verifyVars, composeVars, mainVars>>

\* the except clauses of lines 39-51, by the type of the exception
StderrPrefix(e) ==
  IF e.type = "FileNotFoundError" THEN "Error"
  ELSE IF e.type = "ValueError" THEN "Configuration or Video Error"
  ELSE IF e.type = "YAMLError" THEN "YAML Error"
  ELSE "An unexpected error occurred during processing"

\* lines 39-51: any exception ends the run with status 1
MainExcept ==
  /\ pc \in {"load_config_done", "verify_done", "compose_done"}
  /\ exc # NoExc
  /\ stderr' = StderrPrefix(exc)
  /\ exitcode' = 1
  /\ pc' = "exit"
  /\ UNCHANGED <<raw, fs, video_configs, exc, ret, config, stdout, dirs, handles, trace>>
  /\ UNCHANGED <<output_path, verifyVars, composeVars>>

\* the compositor returned: main falls off its end
MainReturn ==
  /\ pc = "compose_done"
  /\ exc = NoExc
  /\ exitcode' = 0
  /\ pc' = "exit"
  /\ UNCHANGED <<raw, fs, video_configs, exc, ret, config, stdout, dirs, handles, trace>>
  /\ UNCHANGED <<output_path, verifyVars, composeVars, stderr>>

(***************************************************************************)
(* load_config as a step.                                                  *)
(***************************************************************************)
LoadConfig ==
  /\ pc = "load_config"
  /\ LET r == load_config(raw) IN
       /\ exc' = r.exc
       /\ config' = r.config
       /\ stdout' = r.stdout
       /\ dirs' = r.dirs
       /\ ret' = r.config
  /\ pc' = "load_config_done"
  /\ UNCHANGED <<raw, fs, video_configs, handles, trace, output_path>>
  /\ UNCHANGED <<verifyVars, composeVars, mainVars>>

\* the state before any function has run
Fresh ==
  /\ exc = NoExc
  /\ ret = None
  /\ config = NoConfig
  /\ stdout = <<>>
  /\ dirs = {}
  /\ handles = <<>>
  /\ trace = <<>>
  /\ clips = <<>>
  /\ vi = 0
  /\ base = NoBase
  /\ dims = <<0, 0>>
  /\ ci = 0
  /\ video_clip = 0
  /\ loaded_clips = <<>>
  /\ combined = <<>>
  /\ hstacks = <<>>
  /\ final = NoClip
  /\ render = NoRender
  /\ outfile = "absent"
  /\ exitcode = -1
  /\ stderr = ""

InitConfig ==
  /\ raw \in RawFiles
  /\ fs = NoFiles
  /\ video_configs = <<>>
  /\ output_path = ""
  /\ pc = "load_config"
  /\ Fresh

NextConfig == LoadConfig

SpecConfig == InitConfig /\ [][NextConfig]_vars

(***************************************************************************)
(* verify_videos called on an entry list.                                  *)
(***************************************************************************)
InitVerify ==
  /\ raw = [file |-> "missing", obj |-> Null]
  /\ fs \in [Paths -> FileKinds]
  /\ video_configs \in SeqsUpTo({Entry(p) : p \in Paths}, MaxEntries)
  /\ output_path = ""
  /\ pc = "verify"
  /\ Fresh

NextVerify == VerifyBase \/ VerifyNext \/ VerifyMatched \/ VerifyExcept \/ VerifyFinally

SpecVerify == InitVerify /\ [][NextVerify]_vars

(***************************************************************************)
(* process_and_composite_videos called on an entry list.                   *)
(***************************************************************************)
DefaultConfig ==
  [videos |-> <<>>, output_video |-> "out/o.mp4",
   text_area_height |-> DefaultHeight, text_area_color |-> DefaultAreaColor,
   font_size |-> DefaultFontSize, font_color |-> DefaultFontColor]
CustomConfig ==
  [videos |-> <<>>, output_video |-> "out/o.mp4",
   text_area_height |-> IntV(50), text_area_color |-> StrV("red"),
   font_size |-> IntV(12), font_color |-> StrV("blue")]

ComposeFileKinds == {Missing, Corrupt, RefClip, Near, AtTol}

InitCompose ==
  /\ raw = [file |-> "missing", obj |-> Null]
  /\ fs \in [Paths -> ComposeFileKinds]
  /\ video_configs \in SeqsUpTo({Entry(p) : p \in Paths}, MaxEntries)
  /\ output_path = "out/o.mp4"
  /\ pc = "compose"
  /\ exc = NoExc
  /\ ret = None
  /\ \E c \in {DefaultConfig, CustomConfig} : config = [c EXCEPT !.videos = video_configs]
  /\ stdout = <<>>
  /\ dirs = {"out"}
  /\ handles = <<>>
  /\ trace = <<>>
  /\ clips = <<>>
  /\ vi = 0
  /\ base = NoBase
  /\ dims = <<0, 0>>
  /\ ci = 0
  /\ video_clip = 0
  /\ loaded_clips = <<>>
  /\ combined = <<>>
  /\ hstacks = <<>>
  /\ final = NoClip
  /\ render = NoRender
  /\ outfile = "absent"
  /\ exitcode = -1
  /\ stderr = ""

NextCompose == ComposeProbe \/ ComposeNext \/ ComposeArrange \/ ComposeWrite

SpecCompose == InitCompose /\ [][NextCompose]_vars

(***************************************************************************)
(* A run of main on a configuration file.                                  *)
(***************************************************************************)
\* longest 'videos' list of the configurations main is run on
MaxMainVideos == 3

EntryC == DictV([path |-> StrV("c"), description |-> StrV("C")])
NoOptionals ==
  [text_area_height |-> Absent, text_area_color |-> Absent, font_size |-> Absent,
   font_color |-> Absent]
SomeOptionals ==
  [text_area_height |-> IntV(50), text_area_color |-> Triple, font_size |-> IntV(0),
   font_color |-> StrV("blue")]

MainRawFiles ==
  {[file |-> "missing", obj |-> Null], [file |-> "malformed", obj |-> Null],
   [file |-> "ok", obj |-> Null],
   [file |-> "ok", obj |-> RawDict(ListV(<<>>), StrV("out/o.mp4"), NoOptionals)],
   [file |-> "ok", obj |-> RawDict(ListV(<<EntryA>>), Absent, NoOptionals)]}
  \cup {[file |-> "ok", obj |-> RawDict(ListV(vs), StrV("out/o.mp4"), opt)] :
          vs \in SeqsUpTo({EntryA, EntryB, EntryC}, MaxMainVideos),
          opt \in {NoOptionals, SomeOptionals}}

MainFileKinds == {Missing, Corrupt, RefClip, OnePixel, AtTol}

InitMain ==
  /\ raw \in MainRawFiles
  /\ fs \in [Paths -> MainFileKinds]
  /\ video_configs = <<>>
  /\ output_path = ""
  /\ pc = "load_config"
  /\ Fresh

NextMain ==
  \/ LoadConfig \/ MainVerify
  \/ VerifyBase \/ VerifyNext \/ VerifyMatched \/ VerifyExcept \/ VerifyFinally
  \/ MainCompose
  \/ ComposeProbe \/ ComposeNext \/ ComposeArrange \/ ComposeWrite
  \/ MainExcept \/ MainReturn

SpecMain == InitMain /\ [][NextMain]_vars

(***************************************************************************)
(* Properties of verify_videos.                                            *)
(***************************************************************************)
VerifyLeft == pc \in {"verify_except", "verify_finally", "verify_done"}
FileOf(i) == fs[video_configs[i].path]
IsMismatchError(e) == e.type = "ValueError" /\ e.msg \in {"size", "fps", "duration"}
OpenedEntries == {handles[k].entry : k \in DOMAIN handles}
\* a difference beyond the tolerances, stated on the files themselves
Differs(f, g) ==
  \/ f.size[1] # g.size[1] \/ f.size[2] # g.size[2]
  \/ f.fps - g.fps > FpsTol \/ g.fps - f.fps > FpsTol
  \/ f.duration - g.duration > DurTol \/ g.duration - f.duration > DurTol
Usable(f) == f.exists /\ f.opens

\* C1: whatever the outcome of verify_videos, no media handle it opened is
\* still open once it has returned or raised.
C1_NoOpenHandleAfterVerify ==
  pc = "verify_done" => OpenHandles("verify") = {}

\* C2: a clip that verify_videos opened and compared raises the mismatch
\* error exactly when its size differs from the baseline's, or its fps differs
\* by more than 0.001, or its duration by more than 0.1 s; and when every
\* file can be opened and none differs beyond that, nothing is raised.
C2_MismatchIffBeyondTolerance ==
  VerifyLeft /\ video_configs # <<>> =>
    /\ \A i \in 2..Len(video_configs) :
         (i - 1) \in OpenedEntries =>
           ((IsMismatchError(exc) /\ exc.at = i - 1) <=> Differs(FileOf(i), FileOf(1)))
    /\ IsMismatchError(exc) => exc.at \in OpenedEntries /\ exc.at >= 1
    /\ ((\A i \in 1..Len(video_configs) : Usable(FileOf(i)) /\ ~Differs(FileOf(i), FileOf(1)))
          => exc = NoExc)

\* a run that raised nothing although a clip differs from the baseline by
\* exactly both tolerances
C2_Witness ==
  /\ pc = "verify_done" /\ exc = NoExc
  /\ \E i \in 2..Len(video_configs) :
       /\ Abs(FileOf(i).fps - FileOf(1).fps) = FpsTol
       /\ Abs(FileOf(i).duration - FileOf(1).duration) = DurTol

AllIdentical ==
  /\ video_configs # <<>>
  /\ \A i \in 1..Len(video_configs) : Usable(FileOf(i)) /\ FileOf(i) = FileOf(1)

FirstFailure(i) ==
  LET f == FileOf(i) g == FileOf(1) IN
  IF ~f.exists THEN "missing"
  ELSE IF ~f.opens THEN "open"
  ELSE IF i = 1 THEN "none"
  ELSE IF f.size # g.size THEN "size"
  ELSE IF Abs(f.fps - g.fps) > FpsTol THEN "fps"
  ELSE IF Abs(f.duration - g.duration) > DurTol THEN "duration"
  ELSE "none"
Failing == {i \in 1..Len(video_configs) : FirstFailure(i) # "none"}
Lowest(S) == CHOOSE i \in S : \A j \in S : i <= j
ExpectedExc(i) ==
  LET k == FirstFailure(i) IN
  IF k = "missing" THEN Exc("FileNotFoundError", "video", i - 1)
  ELSE IF k = "open" THEN Exc("OSError", "open", i - 1)
  ELSE Exc("ValueError", k, i - 1)
EntriesOf(op) ==
  LET ev == SelectSeq(trace, LAMBDA e : e.op = op)
  IN [k \in DOMAIN ev |-> ev[k].entry]
UpTo(n) == [k \in 1..n |-> k - 1]

\* C10: verify_videos takes the entries in order and stops at the first that
\* fails: the error is that of the lowest failing entry and of its first
\* failing check (existence, then size, fps, duration), a missing file is
\* not opened, and no later entry is checked or opened.
C10_FailFastInOrder ==
  VerifyLeft /\ video_configs # <<>> =>
    IF Failing = {}
    THEN /\ exc = NoExc
         /\ EntriesOf("exists") = UpTo(Len(video_configs))
         /\ EntriesOf("open") = UpTo(Len(video_configs))
    ELSE LET k == Lowest(Failing) IN
         /\ exc = ExpectedExc(k)
         /\ EntriesOf("exists") = UpTo(k)
         /\ EntriesOf("open") =
              IF FirstFailure(k) \in {"missing", "open"} THEN UpTo(k - 1) ELSE UpTo(k)
         /\ \A j \in DOMAIN handles : handles[j].entry <= k - 1
         /\ FirstFailure(k) = "missing" => (k - 1) \notin OpenedEntries

\* the second of three entries is missing and a later one fails too
C10_Witness ==
  /\ pc = "verify_done" /\ Len(video_configs) = 3
  /\ exc = Exc("FileNotFoundError", "video", 1)
  /\ FirstFailure(3) # "none"

(***************************************************************************)
(* Properties of load_config.                                              *)
(***************************************************************************)
ConfigLoaded == pc = "load_config_done" /\ raw.file = "ok"
RawVideoList == raw.obj.v.videos.v
BadEntry(e) == e.t # "dict" \/ e.v.path.t # "str"
\* the conditions under which validation is specified to fail
Rejected(obj) ==
  \/ obj.t # "dict"
  \/ obj.v.videos.t # "list"
  \/ Len(obj.v.videos.v) = 0
  \/ Len(obj.v.videos.v) >= 5
  \/ \E i \in 1..Len(obj.v.videos.v) : BadEntry(obj.v.videos.v[i])
  \/ obj.v.output_video.t # "str"

\* C3: load_config raises its validation error exactly when the decoded
\* object is not a mapping, 'videos' is absent or not a list, there are 0 or
\* at least 5 entries, an entry is not a mapping or lacks a string 'path', or
\* 'output_video' is absent or not a string; otherwise it returns a
\* configuration with as many videos, their paths in the input's order.
C3_ValidationIff ==
  ConfigLoaded =>
    /\ (exc.type = "ValueError") <=> Rejected(raw.obj)
    /\ ~Rejected(raw.obj) =>
         /\ exc = NoExc
         /\ ret = config
         /\ Len(config.videos) = Len(RawVideoList)
         /\ \A i \in 1..Len(RawVideoList) :
              config.videos[i].path = PathOf(RawVideoList[i].v.path.v)

\* four entries with different paths are accepted
C3_Witness ==
  /\ ConfigLoaded /\ exc = NoExc
  /\ Len(config.videos) = 4
  /\ config.videos[1].path # config.videos[4].path

\* the interface table: number >= 0, number > 0, string or RGB triple
TableHeight(x) == x.t \in {"int", "float", "bool"} /\ NumVal(x) >= 0
TableFontSize(x) == x.t \in {"int", "float", "bool"} /\ NumVal(x) > 0
TableColor(x) == x.t = "str" \/ (x.t = "list" /\ Len(x.v) = 3)
Kept(x, valid, default) == IF x # Absent /\ valid THEN x ELSE default

\* C4: for a structurally valid config each optional key is validated to the
\* input value when that is valid per the interface table and to the default
\* (100, "white", 30, "black") when it is absent or invalid; validation never
\* fails for an optional value.
C4_OptionalKeys ==
  ConfigLoaded /\ ~Rejected(raw.obj) =>
    LET c == raw.obj.v IN
    /\ exc = NoExc
    /\ config.text_area_height =
         Kept(c.text_area_height, TableHeight(c.text_area_height), IntV(100))
    /\ config.text_area_color =
         Kept(c.text_area_color, TableColor(c.text_area_color), StrV("white"))
    /\ config.font_size = Kept(c.font_size, TableFontSize(c.font_size), IntV(30))
    /\ config.font_color =
         Kept(c.font_color, TableColor(c.font_color), StrV("black"))

\* C8: a structurally valid config without font_size validates, gets
\* font_size 30, and a warning about font_size is printed.
C8_FontSizeOmittedWarns ==
  ConfigLoaded /\ ~Rejected(raw.obj) /\ raw.obj.v.font_size = Absent =>
    /\ exc = NoExc
    /\ config.font_size = IntV(30)
    /\ \E k \in DOMAIN stdout : stdout[k].w = "font_size"

(***************************************************************************)
(* Properties of process_and_composite_videos.                             *)
(***************************************************************************)
Arranged == pc \in {"compose_write", "compose_done", "exit"} /\ final # NoClip
RowCalls == SelectSeq(trace, LAMBDA e : e.op = "stack_row")

\* C6: with one entry the compositor renders that entry's column and makes
\* no horizontal stacking call; with N > 1 entries it makes exactly one,
\* whose row has N columns, column i built from entry i in input order.
C6_ColumnsInOrder ==
  /\ ~Arranged => hstacks = <<>> /\ RowCalls = <<>>
  /\ Arranged =>
       LET n == Len(video_configs) IN
       /\ Len(combined) = n
       /\ \A i \in 1..n :
            /\ combined[i].entry = i - 1
            /\ handles[combined[i].video].path = video_configs[i].path
            /\ handles[combined[i].video].entry = i - 1
            /\ combined[i].band.overlay.content = video_configs[i].description
       /\ n = 1 => hstacks = <<>> /\ RowCalls = <<>> /\ final = combined[1]
       /\ n > 1 => /\ hstacks = <<combined>>
                   /\ Len(RowCalls) = 1
                   /\ final = [kind |-> "row", columns |-> combined]

\* three different entries have been arranged and rendered
C6_Witness ==
  /\ pc = "compose_done" /\ exc = NoExc /\ outfile = "complete"
  /\ Len(video_configs) = 3
  /\ Cardinality({video_configs[i].path : i \in 1..3}) = 3

\* C9: on an empty entry list the compositor fails with the error of its
\* zero-columns check, opens no media handle and writes no output.
C9_EmptyListIsNoColumnsError ==
  pc = "compose_done" /\ video_configs = <<>> =>
    /\ exc = Exc("ValueError", "no_columns", -1)
    /\ handles = <<>>
    /\ render = NoRender
    /\ outfile = "absent"

(***************************************************************************)
(* Properties of a run of main.                                            *)
(***************************************************************************)
RenderStarted == render # NoRender

\* C5: write_videofile is started only after load_config and verify_videos
\* have both succeeded, and a run that ends with an error has left no file,
\* complete or partial, at output_path.
C5_NoOutputOnError ==
  /\ RenderStarted =>
       /\ ~Rejected(raw.obj)
       /\ config # NoConfig
       /\ video_configs = config.videos
       /\ Failing = {}
       /\ vi > Len(video_configs)
  /\ (pc = "exit" /\ exitcode # 0) => outfile = "absent"

\* C11: for an entry list that passed verification, the frame rate handed
\* to write_videofile is the baseline frame rate verify_videos established
\* (the first entry's fps), also when later entries differ from it within
\* the tolerance.
C11_RenderAtBaselineFps ==
  RenderStarted =>
    /\ render.fps = base.fps
    /\ render.fps = FileOf(1).fps

\* the RGB value of the colours the configurations of the model use
RGBOf(x) ==
  IF x.t = "list" THEN x.v
  ELSE IF x.v = "white" THEN <<255, 255, 255>>
  ELSE IF x.v = "red" THEN <<255, 0, 0>>
  ELSE IF x.v = "blue" THEN <<0, 0, 255>>
  ELSE <<0, 0, 0>>

\* C12: the caption band of every entry has a solid background of size
\* (first clip's width, text_area_height) in the configuration's
\* text_area_color, lasting the entry's clip.
C12_CaptionBandBackground ==
  \A i \in DOMAIN combined :
    LET bg == combined[i].band.bg IN
    /\ bg.kind = "color"
    /\ bg.size = <<FileOf(1).size[1], NumVal(config.text_area_height)>>
    /\ bg.duration = FileOf(i).duration
    /\ bg.color = RGBOf(config.text_area_color)

\* C13: once the compositor has returned or raised, no media handle it
\* opened (the dimension probe, the per-entry video clips) is still open.
C13_NoOpenHandleAfterCompose ==
  pc = "compose_done" =>
    /\ OpenHandles("probe") = {}
    /\ OpenHandles("compose") = {}

====
